---- MODULE Spec2Model ----
(***************************************************************************)
(* SuperMean frontend: the real-time synchronisation client.               *)
(*   services/websocketService.ts  WebSocketService (connection manager,   *)
(*                                 message router, status broadcaster)     *)
(*   store/useMissionStore.ts      updateMissionFromWebSocket              *)
(*   store/useAgentStore.ts        updateAgentFromWebSocket                *)
(* The browser WebSocket and the timer queue are the environment: a socket *)
(* is a slot with a readyState, a timer is a slot with a state and a delay.*)
(* One step of the model is one task of the single-threaded event loop.    *)
(***************************************************************************)
EXTENDS Integers, Sequences, FiniteSets, TLC

\* ------------------------------------------------------------------ bounds
\* sockets that exist at the same time (a closed socket the service no
\* longer references is collected and its slot is used again)
MaxSockets == 2
\* timers that exist at the same time
MaxTimers == 2
\* registrations in statusChangeCallbacks
MaxCallbacks == 1
\* registrations in messageHandlers, all types together
MaxHandlers == 2
\* runs of the effect of useWebSocket
MaxMounts == 3

\* ------------------------------------------------------- program constants
maxReconnectAttempts == 5
BaseDelay == 1000
CapDelay == 30000

CONNECTING == "connecting"
CONNECTED == "connected"
DISCONNECTED == "disconnected"
ERROR == "error"
ConnectionStatus == {CONNECTING, CONNECTED, DISCONNECTED, ERROR}

MessageType == {"MISSION_UPDATE", "AGENT_UPDATE", "SYSTEM_NOTIFICATION"}

\* ------------------------------------------------------------- environment
SocketIds == 1 .. MaxSockets
TimerIds == 1 .. MaxTimers
\* WebSocket.readyState; NONE is a slot that holds no socket
ReadyState == {"NONE", "CONNECTING", "OPEN", "CLOSING", "CLOSED"}
\* a socket that will still deliver events
Live == {"CONNECTING", "OPEN", "CLOSING"}
\* status callbacks the application may register; cbThrow raises when called
Callbacks == {"cb1", "cbThrow"}
\* message handlers the application may register; hThrow raises when called
Handlers == {"h1", "hThrow"}
\* payloads the application passes to sendMessage: a JSON value, NaN (which
\* JSON writes as null) and a cyclic object (which JSON cannot write)
Data == {"d1", "NaN", "cyclic"}
Timestamp == "ts"

VARIABLES
    socket,                 \* this.socket: a socket slot, 0 is null
    reconnectAttempts,      \* this.reconnectAttempts
    reconnectTimeout,       \* this.reconnectTimeout: a timer slot, 0 is null
    messageHandlers,        \* this.messageHandlers: type -> sequence
    statusChangeCallbacks,  \* this.statusChangeCallbacks
    connectionStatus,       \* this.connectionStatus
    sockets,                \* slot -> readyState
    timers,                 \* slot -> state of the timer
    ctorFails,              \* new WebSocket(WS_URL) throws (fixed by WS_URL)
    out,                    \* what the last step returned, sent and invoked,
                            \* and the payload it was handed
    userClosed,             \* history: disconnect() since the last explicit connect()
    closeRun,               \* history: close events of this.socket since the
                            \* last open event / explicit connect()
    removed,                \* history: the <<type, handler>> given to
                            \* offMessage and not to onMessage since
    missions, currentMission,   \* useMissionStore
    agents, currentAgent,       \* useAgentStore
    inFlight                    \* records the server has created for a
                                \* createMission / createAgent request whose
                                \* response has not arrived

wsVars == <<socket, reconnectAttempts, reconnectTimeout, messageHandlers,
            statusChangeCallbacks, connectionStatus, sockets, timers,
            ctorFails, out>>
histVars == <<userClosed, closeRun, removed>>
storeVars == <<missions, currentMission, agents, currentAgent, inFlight>>
vars == <<wsVars, histVars, storeVars>>

Min(a, b) == IF a < b THEN a ELSE b

RECURSIVE Pow2(_)
Pow2(n) == IF n = 0 THEN 1 ELSE 2 * Pow2(n - 1)

\* ------------------------------------------------------------------ helpers
\* the state one task works on: the service's fields, the environment, and
\* what the task has returned, thrown, sent and invoked so far
World ==
    [socket |-> socket, reconnectAttempts |-> reconnectAttempts,
     reconnectTimeout |-> reconnectTimeout, messageHandlers |-> messageHandlers,
     statusChangeCallbacks |-> statusChangeCallbacks,
     connectionStatus |-> connectionStatus, sockets |-> sockets,
     timers |-> timers, ctorFails |-> ctorFails,
     missions |-> missions, currentMission |-> currentMission,
     agents |-> agents, currentAgent |-> currentAgent,
     ret |-> "void", thrown |-> FALSE, full |-> FALSE,
     sent |-> <<>>, calls |-> <<>>, armed |-> <<>>, arg |-> <<>>]

\* new WebSocket(...): the lowest slot that holds no socket; 0 when the
\* model has no slot left
NewSocket(w) ==
    LET free == {s \in SocketIds : w.sockets[s] = "NONE"}
    IN  IF free = {} THEN 0 ELSE CHOOSE s \in free : \A r \in free : s <= r

\* setTimeout(...): the lowest slot that holds no timer; 0 when the model
\* has no slot left
NewTimer(w) ==
    LET free == {t \in TimerIds : w.timers[t] = "NONE"}
    IN  IF free = {} THEN 0 ELSE CHOOSE t \in free : \A r \in free : t <= r

\* Array.prototype.forEach over callbacks: an exception of one callback
\* leaves the loop
Throws(cbs) == \E i \in DOMAIN cbs : cbs[i] = "cbThrow"

\* callbacks.forEach(callback => callback(status)): the callbacks in
\* order up to the first that throws
RECURSIVE Notify(_, _, _)
Notify(callbacks, i, status) ==
    IF i > Len(callbacks) THEN <<>>
    ELSE IF callbacks[i] = "cbThrow" THEN << <<callbacks[i], status>> >>
    ELSE << <<callbacks[i], status>> >> \o Notify(callbacks, i + 1, status)

\* ------------------------------------------------- WebSocketService methods
updateStatus(w, status) ==
    [w EXCEPT !.connectionStatus = status,
              !.calls = @ \o Notify(w.statusChangeCallbacks, 1, status),
              !.thrown = Throws(w.statusChangeCallbacks)]

\* a linear backoff in place of the exponential one
DelayLinear(n) == Min(BaseDelay * (n + 1), CapDelay)

Delay(n) == Min(BaseDelay * Pow2(n), CapDelay)

\* one attempt too many: > in place of >=
attemptReconnectOffByOne(w) ==
    IF w.reconnectAttempts > maxReconnectAttempts THEN w
    ELSE LET t == NewTimer(w)
         IN  IF t = 0 THEN [w EXCEPT !.full = TRUE]
             ELSE [w EXCEPT !.timers[t] = "PENDING",
                            !.armed = Append(@, Delay(w.reconnectAttempts)),
                            !.reconnectTimeout = t]

attemptReconnect(w) ==
    IF w.reconnectAttempts >= maxReconnectAttempts THEN w
    ELSE LET t == NewTimer(w)
         IN  IF t = 0 THEN [w EXCEPT !.full = TRUE]
             ELSE [w EXCEPT !.timers[t] = "PENDING",
                            !.armed = Append(@, Delay(w.reconnectAttempts)),
                            !.reconnectTimeout = t]

\* connect() starts the backoff again
connectResetsAttempts(w) ==
    IF w.socket # 0 /\ w.sockets[w.socket] = "OPEN" THEN w
    ELSE LET w1 == updateStatus([w EXCEPT !.reconnectAttempts = 0], CONNECTING)
         IN  IF w1.thrown THEN w1
             ELSE IF w1.ctorFails
                  THEN LET w2 == updateStatus(w1, ERROR)
                       IN  IF w2.thrown THEN w2 ELSE attemptReconnect(w2)
                  ELSE LET s == NewSocket(w1)
                       IN  IF s = 0 THEN [w1 EXCEPT !.full = TRUE]
                           ELSE [w1 EXCEPT !.sockets[s] = "CONNECTING",
                                           !.socket = s]

\* a constructor that throws is reported and not retried
connectNoRetry(w) ==
    IF w.socket # 0 /\ w.sockets[w.socket] = "OPEN" THEN w
    ELSE LET w1 == updateStatus(w, CONNECTING)
         IN  IF w1.thrown THEN w1
             ELSE IF w1.ctorFails
                  THEN updateStatus(w1, ERROR)
                  ELSE LET s == NewSocket(w1)
                       IN  IF s = 0 THEN [w1 EXCEPT !.full = TRUE]
                           ELSE [w1 EXCEPT !.sockets[s] = "CONNECTING",
                                           !.socket = s]

connect(w) ==
    IF w.socket # 0 /\ w.sockets[w.socket] = "OPEN" THEN w
    ELSE LET w1 == updateStatus(w, CONNECTING)
         IN  IF w1.thrown THEN w1
             ELSE IF w1.ctorFails
                  THEN LET w2 == updateStatus(w1, ERROR)
                       IN  IF w2.thrown THEN w2 ELSE attemptReconnect(w2)
                  ELSE LET s == NewSocket(w1)
                       IN  IF s = 0 THEN [w1 EXCEPT !.full = TRUE]
                           ELSE [w1 EXCEPT !.sockets[s] = "CONNECTING",
                                           !.socket = s]

\* WebSocket.close()
CloseSocket(rs) == IF rs \in {"CONNECTING", "OPEN"} THEN "CLOSING" ELSE rs

\* clearTimeout(...)
ClearTimer(tm) == IF tm = "PENDING" THEN "DONE" ELSE tm

\* disconnect() also empties the registries
disconnectClearsRegistries(w) ==
    LET w1 == IF w.socket # 0
              THEN [w EXCEPT !.sockets[w.socket] = CloseSocket(@), !.socket = 0]
              ELSE w
        w2 == IF w1.reconnectTimeout # 0
              THEN [w1 EXCEPT !.timers[w1.reconnectTimeout] = ClearTimer(@),
                              !.reconnectTimeout = 0]
              ELSE w1
    IN  updateStatus([w2 EXCEPT !.statusChangeCallbacks = <<>>,
                                !.messageHandlers = [t \in MessageType |-> <<>>]],
                     DISCONNECTED)

disconnect(w) ==
    LET w1 == IF w.socket # 0
              THEN [w EXCEPT !.sockets[w.socket] = CloseSocket(@), !.socket = 0]
              ELSE w
        w2 == IF w1.reconnectTimeout # 0
              THEN [w1 EXCEPT !.timers[w1.reconnectTimeout] = ClearTimer(@),
                              !.reconnectTimeout = 0]
              ELSE w1
    IN  updateStatus(w2, DISCONNECTED)

\* JSON.stringify of a flat object: the text lists its members in
\* insertion order; a value that cannot be serialised makes it throw
KeyOrder == <<"type", "data", "timestamp">>
Serializable(obj) == \A k \in DOMAIN obj : obj[k] # "cyclic"
JSONValue(v) == IF v = "NaN" THEN "null" ELSE v
JSONStringify(obj) ==
    LET keys == SelectSeq(KeyOrder, LAMBDA k : k \in DOMAIN obj)
    IN  [kind |-> "object",
         members |-> [i \in DOMAIN keys |-> <<keys[i], JSONValue(obj[keys[i]])>>]]

\* texts that are not an object: the JSON text null, and a text that is no
\* JSON at all
NullText == [kind |-> "null", members |-> <<>>]
BadText == [kind |-> "garbage", members |-> <<>>]

\* JSON.parse: a text that is no JSON throws (ok = FALSE), the text null is
\* the value null, an object text gives the object (the last of two equal
\* keys wins)
JSONParse(text) ==
    LET m == text.members
        keys == {m[i][1] : i \in DOMAIN m}
        last(k) == CHOOSE i \in DOMAIN m :
                       /\ m[i][1] = k
                       /\ \A j \in DOMAIN m : m[j][1] = k => j <= i
    IN  [ok |-> text.kind # "garbage",
         isNull |-> text.kind = "null",
         value |-> [k \in keys |-> m[last(k)][2]]]

\* the message is built with the type in the place of the data
sendMessageDataIsType(w, type, data) ==
    IF ~(w.socket # 0 /\ w.sockets[w.socket] = "OPEN")
    THEN [w EXCEPT !.ret = "false"]
    ELSE LET message == [type |-> type, data |-> type, timestamp |-> Timestamp]
         IN  IF ~Serializable(message) THEN [w EXCEPT !.ret = "false"]
             ELSE [w EXCEPT !.sent = Append(@, [sock |-> w.socket,
                                               text |-> JSONStringify(message)]),
                            !.ret = "true"]

sendMessage(w, type, data) ==
    IF ~(w.socket # 0 /\ w.sockets[w.socket] = "OPEN")
    THEN [w EXCEPT !.ret = "false"]
    ELSE LET message == [type |-> type, data |-> data, timestamp |-> Timestamp]
         IN  IF ~Serializable(message) THEN [w EXCEPT !.ret = "false"]
             ELSE [w EXCEPT !.sent = Append(@, [sock |-> w.socket,
                                               text |-> JSONStringify(message)]),
                            !.ret = "true"]

onMessage(w, type, handler) ==
    [w EXCEPT !.messageHandlers[type] = Append(@, handler)]

\* Array.prototype.indexOf, 0 when absent
IndexOf(seq, x) ==
    IF \E i \in DOMAIN seq : seq[i] = x
    THEN CHOOSE i \in DOMAIN seq : seq[i] = x /\ \A j \in 1 .. i - 1 : seq[j] # x
    ELSE 0

\* Array.prototype.splice(index, 1)
Splice(seq, index) ==
    [i \in 1 .. Len(seq) - 1 |-> IF i < index THEN seq[i] ELSE seq[i + 1]]

\* every registration of the handler is removed
offMessageRemovesAll(w, type, handler) ==
    [w EXCEPT !.messageHandlers[type] = SelectSeq(@, LAMBDA h : h # handler)]

offMessage(w, type, handler) ==
    LET index == IndexOf(w.messageHandlers[type], handler)
    IN  IF index # 0
        THEN [w EXCEPT !.messageHandlers[type] = Splice(@, index)]
        ELSE w

\* the callback is called with another status than the current one
onStatusChangeSaysConnected(w, callback) ==
    [w EXCEPT !.statusChangeCallbacks = Append(@, callback),
              !.calls = Append(@, <<callback, CONNECTED>>),
              !.thrown = (callback = "cbThrow")]

onStatusChange(w, callback) ==
    [w EXCEPT !.statusChangeCallbacks = Append(@, callback),
              !.calls = Append(@, <<callback, w.connectionStatus>>),
              !.thrown = (callback = "cbThrow")]

offStatusChange(w, callback) ==
    LET index == IndexOf(w.statusChangeCallbacks, callback)
    IN  IF index # 0
        THEN [w EXCEPT !.statusChangeCallbacks = Splice(@, index)]
        ELSE w

getStatus(w) == w.connectionStatus

handleOpen(w) == updateStatus([w EXCEPT !.reconnectAttempts = 0], CONNECTED)

handleClose(w) ==
    LET w1 == updateStatus(w, DISCONNECTED)
    IN  IF w1.thrown THEN w1 ELSE attemptReconnect(w1)

handleError(w) == updateStatus(w, ERROR)

\* texts the server may send: a well-formed message of each type, an
\* object without data, an object without type, the text null, and a text
\* that is no JSON
Inbound ==
    {JSONStringify([type |-> t, data |-> "d1", timestamp |-> Timestamp]) :
        t \in MessageType}
    \cup {JSONStringify([type |-> "AGENT_UPDATE", timestamp |-> Timestamp]),
          JSONStringify([data |-> "d1"]), NullText, BadText}

\* ---------------------------------------------------------------- the stores
\* a record is a function from the fields it has to their values; a
\* reference that may be null is a sequence of length 0 or 1
Null == <<>>
Some(r) == <<r>>

MissionIds == {"m1", "m2"}
AgentIds == {"a1"}

\* the records with the given ids and any of the optional fields
Records(ids, optional) ==
    UNION {[{"id"} \cup fs -> ids \cup UNION {optional[f] : f \in fs}] :
               fs \in SUBSET DOMAIN optional}

WellTyped(r, ids, optional) ==
    /\ r.id \in ids
    /\ \A f \in DOMAIN r \ {"id"} : r[f] \in optional[f]

\* Mission: id, and of the other fields status and title
MissionFields == [status |-> {"pending", "completed"}, title |-> {"t1"}]
Missions ==
    {r \in Records(MissionIds, MissionFields) :
        WellTyped(r, MissionIds, MissionFields)}

\* Agent: id, and of the other fields status
AgentFields == [status |-> {"idle", "busy"}]
Agents ==
    {r \in Records(AgentIds, AgentFields) : WellTyped(r, AgentIds, AgentFields)}

\* the existing value wins over the incoming one
SpreadExistingWins(a, b) ==
    [f \in DOMAIN a \cup DOMAIN b |-> IF f \in DOMAIN a THEN a[f] ELSE b[f]]

\* { ...a, ...b }
Spread(a, b) ==
    [f \in DOMAIN a \cup DOMAIN b |-> IF f \in DOMAIN b THEN b[f] ELSE a[f]]

\* the update appends whatever it is given
updateMissionAlwaysAppends(state, mission) ==
    [state EXCEPT !.missions = Append(state.missions, mission)]

\* a new mission is put in front of the collection
updateMissionPrepends(state, mission) ==
    LET missionExists ==
            \E i \in DOMAIN state.missions : state.missions[i].id = mission.id
    IN  IF missionExists
        THEN [missions |->
                  [i \in DOMAIN state.missions |->
                      IF state.missions[i].id = mission.id
                      THEN Spread(state.missions[i], mission)
                      ELSE state.missions[i]],
              currentMission |->
                  IF state.currentMission # Null
                     /\ state.currentMission[1].id = mission.id
                  THEN Some(Spread(state.currentMission[1], mission))
                  ELSE state.currentMission,
              branch |-> "merged"]
        ELSE [missions |-> <<mission>> \o state.missions,
              currentMission |-> state.currentMission,
              branch |-> "inserted"]

\* the current mission is merged whether the collection holds the id or not
updateMissionMergesCurrent(state, mission) ==
    LET missionExists ==
            \E i \in DOMAIN state.missions : state.missions[i].id = mission.id
        current ==
            IF state.currentMission # Null
               /\ state.currentMission[1].id = mission.id
            THEN Some(Spread(state.currentMission[1], mission))
            ELSE state.currentMission
    IN  IF missionExists
        THEN [missions |->
                  [i \in DOMAIN state.missions |->
                      IF state.missions[i].id = mission.id
                      THEN Spread(state.missions[i], mission)
                      ELSE state.missions[i]],
              currentMission |-> current,
              branch |-> "merged"]
        ELSE [missions |-> Append(state.missions, mission),
              currentMission |-> current,
              branch |-> "inserted"]

updateMissionFromWebSocket(state, mission) ==
    LET missionExists ==
            \E i \in DOMAIN state.missions : state.missions[i].id = mission.id
    IN  IF missionExists
        THEN [missions |->
                  [i \in DOMAIN state.missions |->
                      IF state.missions[i].id = mission.id
                      THEN Spread(state.missions[i], mission)
                      ELSE state.missions[i]],
              currentMission |->
                  IF state.currentMission # Null
                     /\ state.currentMission[1].id = mission.id
                  THEN Some(Spread(state.currentMission[1], mission))
                  ELSE state.currentMission,
              branch |-> "merged"]
        ELSE [missions |-> Append(state.missions, mission),
              currentMission |-> state.currentMission,
              branch |-> "inserted"]

updateAgentFromWebSocket(state, agent) ==
    LET agentExists ==
            \E i \in DOMAIN state.agents : state.agents[i].id = agent.id
    IN  IF agentExists
        THEN [agents |->
                  [i \in DOMAIN state.agents |->
                      IF state.agents[i].id = agent.id
                      THEN Spread(state.agents[i], agent)
                      ELSE state.agents[i]],
              currentAgent |->
                  IF state.currentAgent # Null
                     /\ state.currentAgent[1].id = agent.id
                  THEN Some(Spread(state.currentAgent[1], agent))
                  ELSE state.currentAgent,
              branch |-> "merged"]
        ELSE [agents |-> Append(state.agents, agent),
              currentAgent |-> state.currentAgent,
              branch |-> "inserted"]

\* handlers that call offMessage while they are called: hOnce for itself,
\* hOffH1 for the handler h1
Unsubscribing == {"hOnce", "hOffH1"}
Unsubscribes(handler) == IF handler = "hOnce" THEN "hOnce" ELSE "h1"

\* the handlers useWebSocket subscribes: each hands the data to a store
HookHandlers == {"hMission", "hAgent"}

\* an array element that is undefined
Undefined == [undefined |-> TRUE]

\* message.data
DataOf(message) ==
    IF "data" \in DOMAIN message THEN message.data ELSE "undefined"

\* missionStore.updateMissionFromWebSocket(data) or
\* agentStore.updateAgentFromWebSocket(data) with the data of a message,
\* an object or undefined: reading .id of undefined throws, which happens
\* when the collection is searched for the id of undefined data and when
\* an element of the collection is undefined
Hook(w, handler, message) ==
    LET collection == IF handler = "hMission" THEN w.missions ELSE w.agents
        present == "data" \in DOMAIN message
    IN  IF present
        THEN IF \E i \in DOMAIN collection : collection[i] = Undefined
             THEN [w |-> w, thrown |-> TRUE]
             ELSE IF handler = "hMission"
             THEN LET state == updateMissionFromWebSocket(
                                   [missions |-> w.missions,
                                    currentMission |-> w.currentMission,
                                    branch |-> "none"], message.data)
                  IN  [w |-> [w EXCEPT !.missions = state.missions,
                                       !.currentMission = state.currentMission],
                       thrown |-> FALSE]
             ELSE LET state == updateAgentFromWebSocket(
                                   [agents |-> w.agents,
                                    currentAgent |-> w.currentAgent,
                                    branch |-> "none"], message.data)
                  IN  [w |-> [w EXCEPT !.agents = state.agents,
                                       !.currentAgent = state.currentAgent],
                       thrown |-> FALSE]
        ELSE IF collection # <<>> THEN [w |-> w, thrown |-> TRUE]
             ELSE IF handler = "hMission"
             THEN [w |-> [w EXCEPT !.missions = <<Undefined>>], thrown |-> FALSE]
             ELSE [w |-> [w EXCEPT !.agents = <<Undefined>>], thrown |-> FALSE]

\* handlers.forEach(handler => handler(message.data)) from index k: the
\* length is read once, an index the array has no more is passed over, a
\* handler that throws leaves the loop, and a handler's offMessage splices
\* the array the loop is reading
RECURSIVE ForEach(_, _, _, _, _)
ForEach(w, type, k, len, message) ==
    LET handlers == w.messageHandlers[type]
    IN  IF k > len THEN w
        ELSE IF k > Len(handlers) THEN ForEach(w, type, k + 1, len, message)
        ELSE LET handler == handlers[k]
                 w1 == [w EXCEPT !.calls = Append(@, <<handler, DataOf(message)>>)]
             IN  IF handler = "hThrow" THEN w1
                 ELSE IF handler \in Unsubscribing
                 THEN ForEach(offMessage(w1, type, Unsubscribes(handler)),
                              type, k + 1, len, message)
                 ELSE IF handler \in HookHandlers
                 THEN LET called == Hook(w1, handler, message)
                      IN  IF called.thrown THEN w1
                          ELSE ForEach(called.w, type, k + 1, len, message)
                 ELSE ForEach(w1, type, k + 1, len, message)

\* a text that cannot be parsed is reported as an error of the connection
handleMessageBadTextIsError(w, text) ==
    LET parsed == JSONParse(text)
    IN  IF ~parsed.ok \/ parsed.isNull THEN updateStatus(w, ERROR)
        ELSE LET message == parsed.value
                 type == IF "type" \in DOMAIN message THEN message.type
                         ELSE "undefined"
             IN  IF type \in MessageType
                 THEN ForEach(w, type, 1, Len(w.messageHandlers[type]),
                              message)
                 ELSE w

\* every exception inside (JSON.parse, message.type of null, a handler) is
\* caught and logged
handleMessage(w, text) ==
    LET parsed == JSONParse(text)
    IN  IF ~parsed.ok \/ parsed.isNull THEN w
        ELSE LET message == parsed.value
                 type == IF "type" \in DOMAIN message THEN message.type
                         ELSE "undefined"
             IN  IF type \in MessageType
                 THEN ForEach(w, type, 1, Len(w.messageHandlers[type]),
                              message)
                 ELSE w

\* --------------------------------------------------------------- the tasks
\* the runtime collects what nothing references: a closed socket that is not
\* this.socket, a timer that has run or was cleared and is not
\* this.reconnectTimeout
Collect(w) ==
    [w EXCEPT
       !.sockets = [s \in SocketIds |->
                      IF w.sockets[s] = "CLOSED" /\ s # w.socket
                      THEN "NONE" ELSE w.sockets[s]],
       !.timers = [t \in TimerIds |->
                      IF w.timers[t] \in {"DONE", "FIRING"}
                      THEN (IF t = w.reconnectTimeout THEN "DONE" ELSE "NONE")
                      ELSE w.timers[t]]]

\* the task ends: its effects become the state
Commit(w0) ==
    LET w == Collect(w0)
    IN  /\ ~w.full
        /\ socket' = w.socket
        /\ reconnectAttempts' = w.reconnectAttempts
        /\ reconnectTimeout' = w.reconnectTimeout
        /\ messageHandlers' = w.messageHandlers
        /\ statusChangeCallbacks' = w.statusChangeCallbacks
        /\ connectionStatus' = w.connectionStatus
        /\ sockets' = w.sockets
        /\ timers' = w.timers
        /\ ctorFails' = w.ctorFails
        /\ out' = [ret |-> w.ret, thrown |-> w.thrown, sent |-> w.sent,
                   calls |-> w.calls, armed |-> w.armed, arg |-> w.arg]

NoOut == [ret |-> "void", thrown |-> FALSE, sent |-> <<>>, calls |-> <<>>,
          armed |-> <<>>, arg |-> <<>>]

Bump(n) == Min(n + 1, maxReconnectAttempts + 1)

\* the application calls connect()
Connect ==
    /\ Commit(connect(World))
    /\ UNCHANGED storeVars

\* the application calls disconnect()
Disconnect ==
    /\ Commit(disconnect(World))
    /\ UNCHANGED storeVars

\* the application calls sendMessage(type, data)
Send(type, data) ==
    /\ Commit(sendMessage(World, type, data))
    /\ UNCHANGED storeVars

SendMessage == \E type \in MessageType, data \in Data : Send(type, data)

\* the socket's open event
SocketOpen(s) ==
    /\ sockets[s] = "CONNECTING"
    /\ Commit(handleOpen([World EXCEPT !.sockets[s] = "OPEN"]))
    /\ UNCHANGED storeVars

\* the task that ends a socket: readyState becomes CLOSED, an error event
\* is fired when the connection failed, then the close event
SocketClose(s, failed) ==
    /\ sockets[s] \in Live
    /\ LET w0 == [World EXCEPT !.sockets[s] = "CLOSED"]
           w1 == IF failed THEN handleError(w0) ELSE w0
           w2 == handleClose([w1 EXCEPT !.thrown = FALSE])
       IN  Commit([w2 EXCEPT !.thrown = w1.thrown \/ w2.thrown])
    /\ UNCHANGED storeVars

\* the reconnect timer's callback
TimerFire(t) ==
    /\ timers[t] = "PENDING"
    /\ LET w0 == [World EXCEPT !.timers[t] = "FIRING"]
           w1 == [w0 EXCEPT !.reconnectAttempts = @ + 1]
       IN  Commit(connect(w1))
    /\ UNCHANGED storeVars

\* the socket's message event with the given text
Message(s, text) ==
    /\ sockets[s] = "OPEN"
    /\ LET w == handleMessage([World EXCEPT !.arg = <<text>>], text)
       IN  /\ Commit(w)
           /\ missions' = w.missions
           /\ currentMission' = w.currentMission
           /\ agents' = w.agents
           /\ currentAgent' = w.currentAgent
    /\ UNCHANGED inFlight

SocketMessage(s) == \E text \in Inbound : Message(s, text)

\* number of registered message handlers
RECURSIVE Registered(_, _)
Registered(mh, types) ==
    IF types = {} THEN 0
    ELSE LET t == CHOOSE x \in types : TRUE
         IN  Len(mh[t]) + Registered(mh, types \ {t})

\* the application calls onMessage(type, handler)
On(type, handler) ==
    /\ Registered(messageHandlers, MessageType) < MaxHandlers
    /\ Commit(onMessage(World, type, handler))
    /\ UNCHANGED storeVars

OnMessage == \E type \in MessageType, handler \in Handlers : On(type, handler)

\* the application calls offMessage(type, handler)
Off(type, handler) ==
    /\ Commit(offMessage(World, type, handler))
    /\ UNCHANGED storeVars

OffMessage == \E type \in MessageType, handler \in Handlers : Off(type, handler)

\* the application calls onStatusChange(callback)
OnStatus(callback) ==
    /\ Len(statusChangeCallbacks) < MaxCallbacks
    /\ Commit(onStatusChange(World, callback))
    /\ UNCHANGED storeVars

OnStatusChange == \E callback \in Callbacks : OnStatus(callback)

\* the application calls offStatusChange(callback)
OffStatus(callback) ==
    /\ Commit(offStatusChange(World, callback))
    /\ UNCHANGED storeVars

OffStatusChange == \E callback \in Callbacks : OffStatus(callback)

\* the service after construction
InitService ==
    /\ socket = 0
    /\ reconnectAttempts = 0
    /\ reconnectTimeout = 0
    /\ messageHandlers = [type \in MessageType |-> <<>>]
    /\ statusChangeCallbacks = <<>>
    /\ connectionStatus = DISCONNECTED
    /\ sockets = [s \in SocketIds |-> "NONE"]
    /\ timers = [t \in TimerIds |-> "NONE"]
    /\ out = NoOut
    /\ userClosed = FALSE
    /\ closeRun = 0
    /\ removed = {}

\* the stores after creation
InitStores ==
    /\ missions = <<>>
    /\ currentMission = Null
    /\ agents = <<>>
    /\ currentAgent = Null
    /\ inFlight = {}

Init ==
    /\ InitService
    /\ ctorFails \in BOOLEAN
    /\ InitStores

\* the mission store is handed a mission that arrived
UpdateMission(mission) ==
    LET state == updateMissionFromWebSocket(
                     [missions |-> missions, currentMission |-> currentMission,
                      branch |-> "none"], mission)
    IN  /\ missions' = state.missions
        /\ currentMission' = state.currentMission
        /\ out' = [NoOut EXCEPT !.ret = state.branch, !.arg = <<mission>>]
        /\ UNCHANGED <<agents, currentAgent, inFlight>>
        /\ UNCHANGED <<socket, reconnectAttempts, reconnectTimeout,
                       messageHandlers, statusChangeCallbacks,
                       connectionStatus, sockets, timers, ctorFails>>

UpdateMissionFromWebSocket == \E mission \in Missions : UpdateMission(mission)

\* the agent store is handed an agent that arrived
UpdateAgent(agent) ==
    LET state == updateAgentFromWebSocket(
                     [agents |-> agents, currentAgent |-> currentAgent,
                      branch |-> "none"], agent)
    IN  /\ agents' = state.agents
        /\ currentAgent' = state.currentAgent
        /\ out' = [NoOut EXCEPT !.ret = state.branch, !.arg = <<agent>>]
        /\ UNCHANGED <<missions, currentMission, inFlight>>
        /\ UNCHANGED <<socket, reconnectAttempts, reconnectTimeout,
                       messageHandlers, statusChangeCallbacks,
                       connectionStatus, sockets, timers, ctorFails>>

UpdateAgentFromWebSocket == \E agent \in Agents : UpdateAgent(agent)

\* sequences of records without a repeated id
RECURSIVE Collections(_, _)
Collections(records, ids) ==
    {<<>>} \cup
    UNION {{<<r>> \o rest : rest \in Collections(records, ids \ {r.id})} :
               r \in {x \in records : x.id \in ids}}

\* the stores hold what earlier requests have fetched: collections without
\* a repeated id, and any current record or none
InitUpsert ==
    /\ InitService
    /\ ctorFails = FALSE
    /\ missions \in Collections(Missions, MissionIds)
    /\ currentMission \in {Null} \cup {Some(r) : r \in Missions}
    /\ agents \in Collections(Agents, AgentIds)
    /\ currentAgent \in {Null} \cup {Some(r) : r \in Agents}
    /\ inFlight = {}

NextUpsert ==
    \/ UpdateMissionFromWebSocket /\ UNCHANGED histVars
    \/ UpdateAgentFromWebSocket /\ UNCHANGED histVars

SpecUpsert == InitUpsert /\ [][NextUpsert]_vars

\* the same stores with fewer detail views: none, or one record that an
\* earlier fetchMissionById / fetchAgentById has stored
InitMerge ==
    /\ InitService
    /\ ctorFails = FALSE
    /\ missions \in Collections(Missions, MissionIds)
    /\ currentMission \in {Null, Some([id |-> "m1", status |-> "pending"])}
    /\ agents \in Collections(Agents, AgentIds)
    /\ currentAgent \in {Null, Some([id |-> "a1", status |-> "idle"])}
    /\ inFlight = {}

SpecMerge == InitMerge /\ [][NextUpsert]_vars

\* the records as the server holds and sends them: every field is set
Whole(records, optional) ==
    {r \in records : DOMAIN r = {"id"} \cup DOMAIN optional}

\* the ids the client has seen or the server has given out
KnownIds ==
    {missions[i].id : i \in DOMAIN missions}
        \cup {agents[i].id : i \in DOMAIN agents}
        \cup {r.id : r \in inFlight}

\* createMission / createAgent up to the await: the request is sent and the
\* server creates the record, under an id it has not used
CreateRequest(record) ==
    /\ record.id \notin KnownIds
    /\ inFlight' = inFlight \cup {record}
    /\ out' = NoOut
    /\ UNCHANGED <<missions, currentMission, agents, currentAgent>>
    /\ UNCHANGED <<socket, reconnectAttempts, reconnectTimeout,
                   messageHandlers, statusChangeCallbacks,
                   connectionStatus, sockets, timers, ctorFails>>

\* createMission after the await: the response is appended
CreateMissionDone(record) ==
    /\ record \in inFlight
    /\ record.id \in MissionIds
    /\ missions' = Append(missions, record)
    /\ inFlight' = inFlight \ {record}
    /\ out' = [NoOut EXCEPT !.ret = "created", !.arg = <<record>>]
    /\ UNCHANGED <<currentMission, agents, currentAgent>>
    /\ UNCHANGED <<socket, reconnectAttempts, reconnectTimeout,
                   messageHandlers, statusChangeCallbacks,
                   connectionStatus, sockets, timers, ctorFails>>

\* createAgent after the await: the response is appended
CreateAgentDone(record) ==
    /\ record \in inFlight
    /\ record.id \in AgentIds
    /\ agents' = Append(agents, record)
    /\ inFlight' = inFlight \ {record}
    /\ out' = [NoOut EXCEPT !.ret = "created", !.arg = <<record>>]
    /\ UNCHANGED <<missions, currentMission, currentAgent>>
    /\ UNCHANGED <<socket, reconnectAttempts, reconnectTimeout,
                   messageHandlers, statusChangeCallbacks,
                   connectionStatus, sockets, timers, ctorFails>>

\* the server tells every client of a record it holds: an update arrives
\* for a record the client holds or for one just created
UpdateArrives ==
    \/ \E mission \in Whole(Missions, MissionFields) :
           mission.id \in KnownIds /\ UpdateMission(mission)
    \/ \E agent \in Whole(Agents, AgentFields) :
           agent.id \in KnownIds /\ UpdateAgent(agent)

\* the stores written by the socket's updates and by their own requests
NextCreate ==
    \/ \E record \in Whole(Missions, MissionFields)
                         \cup Whole(Agents, AgentFields) :
           CreateRequest(record) /\ UNCHANGED histVars
    \/ \E record \in Missions : CreateMissionDone(record) /\ UNCHANGED histVars
    \/ \E record \in Agents : CreateAgentDone(record) /\ UNCHANGED histVars
    \/ UpdateArrives /\ UNCHANGED histVars

\* the service as constructed and the stores empty
InitCreate ==
    /\ Init
    /\ ctorFails = FALSE

SpecCreate == InitCreate /\ [][NextCreate]_vars

\* the connection manager, its sockets and its timers
Lifecycle ==
    \/ Connect
    \/ Disconnect
    \/ SendMessage
    \/ \E s \in SocketIds : SocketOpen(s)
    \/ \E s \in SocketIds, failed \in BOOLEAN : SocketClose(s, failed)
    \/ \E t \in TimerIds : TimerFire(t)

Next ==
    \/ Connect /\ UNCHANGED histVars
    \/ Disconnect /\ UNCHANGED histVars
    \/ SendMessage /\ UNCHANGED histVars
    \/ \E s \in SocketIds : SocketOpen(s) /\ UNCHANGED histVars
    \/ \E s \in SocketIds, failed \in BOOLEAN :
           SocketClose(s, failed) /\ UNCHANGED histVars
    \/ \E t \in TimerIds : TimerFire(t) /\ UNCHANGED histVars

Spec == Init /\ [][Next]_vars

\* the steps that change the connection, with the history of explicit calls
\* and close events kept (sendMessage changes nothing of it, see C9)
NextHist ==
    \/ Connect /\ userClosed' = FALSE /\ closeRun' = 0 /\ UNCHANGED removed
    \/ Disconnect /\ userClosed' = TRUE /\ UNCHANGED <<closeRun, removed>>
    \/ \E s \in SocketIds :
           SocketOpen(s) /\ closeRun' = 0 /\ UNCHANGED <<userClosed, removed>>
    \/ \E s \in SocketIds, failed \in BOOLEAN :
           /\ SocketClose(s, failed)
           /\ closeRun' = (IF s = socket THEN Bump(closeRun) ELSE closeRun)
           /\ UNCHANGED <<userClosed, removed>>
    \/ \E t \in TimerIds : TimerFire(t) /\ UNCHANGED histVars

SpecHist == Init /\ [][NextHist]_vars

\* the event loop runs the callback of a timer that is due
TimersRun == \A t \in TimerIds : WF_vars(TimerFire(t) /\ UNCHANGED histVars)

\* the connection manager on an event loop that runs its timers
SpecLive == Init /\ [][Next]_vars /\ TimersRun

\* the application calls connect() once, at start
ConnectAtStart ==
    /\ socket = 0
    /\ \A t \in TimerIds : timers[t] = "NONE"
    /\ Connect

\* the service once the useWebSocket effect has subscribed its two message
\* handlers and a status callback, and the stores hold a record each
InitFrame ==
    /\ socket = 0
    /\ reconnectAttempts = 0
    /\ reconnectTimeout = 0
    /\ messageHandlers =
           [type \in MessageType |->
               IF type \in {"MISSION_UPDATE", "AGENT_UPDATE"} THEN <<"h1">>
               ELSE <<>>]
    /\ statusChangeCallbacks \in {<<"cb1">>, <<"cbThrow">>}
    /\ connectionStatus = DISCONNECTED
    /\ sockets = [s \in SocketIds |-> "NONE"]
    /\ timers = [t \in TimerIds |-> "NONE"]
    /\ ctorFails \in BOOLEAN
    /\ out = NoOut
    /\ userClosed = FALSE
    /\ closeRun = 0
    /\ removed = {}
    /\ missions = <<[id |-> "m1", status |-> "pending"]>>
    /\ currentMission = Null
    /\ agents = <<[id |-> "a1", status |-> "idle"]>>
    /\ currentAgent = Null
    /\ inFlight = {}

\* the connection manager while the application is subscribed
NextFrame ==
    \/ Connect /\ UNCHANGED histVars
    \/ Disconnect /\ UNCHANGED histVars
    \/ \E s \in SocketIds : SocketOpen(s) /\ UNCHANGED histVars
    \/ \E s \in SocketIds, failed \in BOOLEAN :
           SocketClose(s, failed) /\ UNCHANGED histVars
    \/ \E t \in TimerIds : TimerFire(t) /\ UNCHANGED histVars

SpecFrame == InitFrame /\ [][NextFrame]_vars

\* the service with the status callbacks that earlier calls of
\* onStatusChange have subscribed: none, one, or two (the same callback
\* twice included)
InitNotify ==
    /\ socket = 0
    /\ reconnectAttempts = 0
    /\ reconnectTimeout = 0
    /\ messageHandlers = [type \in MessageType |-> <<>>]
    /\ statusChangeCallbacks \in
           {<<>>} \cup {<<a>> : a \in Callbacks}
                  \cup {<<a, b>> : a \in Callbacks, b \in Callbacks}
    /\ connectionStatus = DISCONNECTED
    /\ sockets = [s \in SocketIds |-> "NONE"]
    /\ timers = [t \in TimerIds |-> "NONE"]
    /\ ctorFails \in BOOLEAN
    /\ out = NoOut
    /\ userClosed = FALSE
    /\ closeRun = 0
    /\ removed = {}
    /\ InitStores

\* the status broadcaster with an application that connects at start, may
\* disconnect, and unsubscribes
NextNotify ==
    \/ ConnectAtStart /\ UNCHANGED histVars
    \/ Disconnect /\ UNCHANGED histVars
    \/ \E s \in SocketIds : SocketOpen(s) /\ UNCHANGED histVars
    \/ \E s \in SocketIds, failed \in BOOLEAN :
           SocketClose(s, failed) /\ UNCHANGED histVars
    \/ \E t \in TimerIds : TimerFire(t) /\ UNCHANGED histVars
    \/ OffStatusChange /\ UNCHANGED histVars

SpecNotify == InitNotify /\ [][NextNotify]_vars

\* the status broadcaster, with an application that connects at start,
\* may disconnect, and subscribes to the status
NextStatus ==
    \/ ConnectAtStart /\ UNCHANGED histVars
    \/ Disconnect /\ UNCHANGED histVars
    \/ \E s \in SocketIds : SocketOpen(s) /\ UNCHANGED histVars
    \/ \E s \in SocketIds, failed \in BOOLEAN :
           SocketClose(s, failed) /\ UNCHANGED histVars
    \/ \E t \in TimerIds : TimerFire(t) /\ UNCHANGED histVars
    \/ OnStatusChange /\ UNCHANGED histVars
    \/ OffStatusChange /\ UNCHANGED histVars

SpecStatus == Init /\ [][NextStatus]_vars

\* the message router, with an application that connects at start, leaves
\* reconnecting to the service and subscribes to messages
NextRouter ==
    \/ ConnectAtStart /\ UNCHANGED histVars
    \/ \E s \in SocketIds : SocketOpen(s) /\ UNCHANGED histVars
    \/ \E s \in SocketIds, failed \in BOOLEAN :
           SocketClose(s, failed) /\ UNCHANGED histVars
    \/ \E t \in TimerIds : TimerFire(t) /\ UNCHANGED histVars
    \/ \E s \in SocketIds : SocketMessage(s) /\ UNCHANGED histVars
    \/ OnMessage /\ UNCHANGED histVars
    \/ OffMessage /\ UNCHANGED histVars

SpecRouter == Init /\ [][NextRouter]_vars

\* the message router on a connection that stays open, with the history
\* of the calls of offMessage
NextUnsubscribe ==
    \/ ConnectAtStart /\ UNCHANGED histVars
    \/ \E s \in SocketIds : SocketOpen(s) /\ UNCHANGED histVars
    \/ \E s \in SocketIds : SocketMessage(s) /\ UNCHANGED histVars
    \/ \E type \in MessageType, handler \in Handlers :
           /\ On(type, handler)
           /\ removed' = removed \ {<<type, handler>>}
           /\ UNCHANGED <<userClosed, closeRun>>
    \/ \E type \in MessageType, handler \in Handlers :
           /\ Off(type, handler)
           /\ removed' = removed \cup {<<type, handler>>}
           /\ UNCHANGED <<userClosed, closeRun>>

SpecUnsubscribe == Init /\ [][NextUnsubscribe]_vars

\* the application has subscribed up to three handlers for MISSION_UPDATE
\* before it connects, some of which unsubscribe when they are called
InitReentrant ==
    /\ socket = 0
    /\ reconnectAttempts = 0
    /\ reconnectTimeout = 0
    /\ \E n \in 0 .. 3 :
           \E hs \in [1 .. n -> {"h1"} \cup Unsubscribing] :
               messageHandlers =
                   [type \in MessageType |->
                       IF type = "MISSION_UPDATE" THEN hs ELSE <<>>]
    /\ statusChangeCallbacks = <<>>
    /\ connectionStatus = DISCONNECTED
    /\ sockets = [s \in SocketIds |-> "NONE"]
    /\ timers = [t \in TimerIds |-> "NONE"]
    /\ ctorFails = FALSE
    /\ out = NoOut
    /\ userClosed = FALSE
    /\ closeRun = 0
    /\ removed = {}
    /\ InitStores

\* one connection that delivers messages
NextReentrant ==
    \/ ConnectAtStart /\ UNCHANGED histVars
    \/ \E s \in SocketIds : SocketOpen(s) /\ UNCHANGED histVars
    \/ \E s \in SocketIds : SocketMessage(s) /\ UNCHANGED histVars

SpecReentrant == InitReentrant /\ [][NextReentrant]_vars

\* the effect of useWebSocket runs: connect(), onStatusChange(setStatus),
\* and a new handler for MISSION_UPDATE and for AGENT_UPDATE
Mount ==
    /\ statusChangeCallbacks = <<>>
    /\ Len(messageHandlers["MISSION_UPDATE"]) < MaxMounts
    /\ LET w1 == connect(World)
           w2 == onStatusChange(w1, "cb1")
           w3 == onMessage(w2, "MISSION_UPDATE", "hMission")
           w4 == onMessage(w3, "AGENT_UPDATE", "hAgent")
       IN  Commit([w4 EXCEPT !.ret = "mounted"])
    /\ UNCHANGED storeVars

\* the cleanup of the effect: offStatusChange(setStatus), disconnect()
Cleanup ==
    /\ statusChangeCallbacks # <<>>
    /\ LET w1 == offStatusChange(World, "cb1")
           w2 == disconnect(w1)
       IN  Commit([w2 EXCEPT !.ret = "cleaned"])
    /\ UNCHANGED storeVars

\* the text of a message whose data is an object
Frame(type, data) ==
    [kind |-> "object",
     members |-> << <<"type", type>>, <<"data", data>>,
                    <<"timestamp", Timestamp>> >>]

\* the text of a message without data
Bare(type) == JSONStringify([type |-> type, timestamp |-> Timestamp])

\* the missions and agents the server holds
HookMissions == {r \in Whole(Missions, MissionFields) : r.id = "m1"}
HookAgents == {r \in Whole(Agents, AgentFields) : r.status = "idle"}

\* the server sends a mission or an agent as it holds it, or a message of
\* these types without data
HookMessage(s) ==
    \/ \E mission \in HookMissions :
           Message(s, Frame("MISSION_UPDATE", mission))
    \/ \E agent \in HookAgents : Message(s, Frame("AGENT_UPDATE", agent))
    \/ \E type \in {"MISSION_UPDATE", "AGENT_UPDATE"} : Message(s, Bare(type))

\* a component that uses useWebSocket is mounted and unmounted, over
\* connections that open, deliver messages and close
NextHook ==
    \/ Mount /\ UNCHANGED histVars
    \/ Cleanup /\ UNCHANGED histVars
    \/ \E s \in SocketIds : SocketOpen(s) /\ UNCHANGED histVars
    \/ \E s \in SocketIds, failed \in BOOLEAN :
           SocketClose(s, failed) /\ UNCHANGED histVars
    \/ \E t \in TimerIds : TimerFire(t) /\ UNCHANGED histVars
    \/ \E s \in SocketIds : HookMessage(s) /\ UNCHANGED histVars

SpecHook == InitCreate /\ [][NextHook]_vars

\* ------------------------------------------------------------------ claims
Pending == {t \in TimerIds : timers[t] = "PENDING"}

\* the step is the open event of socket s
IsOpenStep(s) == sockets[s] = "CONNECTING" /\ sockets'[s] = "OPEN"

\* the step is the task that ends socket s (its close event)
IsCloseStep(s) == sockets[s] \in Live /\ sockets'[s] \notin Live

\* C1: after an explicit disconnect() no reconnect timer is armed (so
\* connect() is not invoked automatically) until the application calls
\* connect() again
C1_NoReconnectAfterDisconnect == userClosed => Pending = {}

\* C2: at most one socket created by the service is connecting or open
\* (every socket it creates keeps its handlers)
C2_AtMostOneActiveTransport ==
    Cardinality({s \in SocketIds : sockets[s] \in {"CONNECTING", "OPEN"}}) <= 1

\* C3: at most one reconnect timer is pending, and it is the one
\* this.reconnectTimeout holds, so that disconnect() cancels every pending
\* timer
C3_SingleCancellableTimer ==
    /\ Cardinality(Pending) <= 1
    /\ \A t \in Pending : t = reconnectTimeout

C5_CloseAfterOpenRestartsBackoff ==
    [][\A s \in SocketIds :
          /\ IsOpenStep(s) => reconnectAttempts' = 0
          /\ (sockets[s] = "OPEN" /\ IsCloseStep(s)) => out'.armed = <<1000>>]_vars

\* C6: a timer armed with the attempt counter at n has delay
\* min(1000 * 2^n, 30000): 1000, 2000, 4000, 8000, 16000 for n = 0 .. 4
C6_Delays == <<1000, 2000, 4000, 8000, 16000>>
C6_BackoffDelay ==
    out.armed # <<>> =>
        /\ reconnectAttempts \in 0 .. 4
        /\ out.armed = <<C6_Delays[reconnectAttempts + 1]>>

C6_Witness == out.armed = <<16000>> /\ reconnectAttempts = 4

\* C7: an open or close event of a socket that is not this.socket changes
\* neither the status, nor the attempt counter, nor the timer, and invokes
\* no handler
C7_StaleEventsIgnored ==
    [][\A s \in SocketIds :
          (s # socket /\ (IsOpenStep(s) \/ IsCloseStep(s))) =>
              /\ connectionStatus' = connectionStatus
              /\ reconnectAttempts' = reconnectAttempts
              /\ timers' = timers
              /\ reconnectTimeout' = reconnectTimeout
              /\ out'.calls = <<>>]_vars

\* C8: sendMessage called while the status is DISCONNECTED returns false,
\* transmits nothing and throws nothing
C8_SendWhileDisconnectedFails ==
    (out.ret # "void" /\ connectionStatus = DISCONNECTED) =>
        out.ret = "false" /\ out.sent = <<>> /\ ~out.thrown

\* what sendMessage leaves alone
SendFrame ==
    UNCHANGED <<connectionStatus, reconnectAttempts, reconnectTimeout, timers,
                messageHandlers, statusChangeCallbacks, socket, sockets>>

\* the message a transmitted text carries
Carried(frame) == JSONParse(frame.text).value

\* C9 as claimed: sendMessage(type, data) called while the status is
\* CONNECTED and this.socket is open returns true and transmits one message
\* with that type and that data, and changes nothing else
C9_SendWhileConnected ==
    [][\A type \in MessageType, data \in Data :
          (/\ out'.ret \in {"true", "false"}
           /\ Send(type, data)
           /\ connectionStatus = CONNECTED
           /\ socket # 0 /\ sockets[socket] = "OPEN") =>
              /\ out'.ret = "true"
              /\ Len(out'.sent) = 1
              /\ out'.sent[1].sock = socket
              /\ Carried(out'.sent[1]).type = type
              /\ Carried(out'.sent[1]).data = data
              /\ SendFrame]_vars

\* C9 amended: when JSON.stringify succeeds the call returns true and
\* transmits one message on this.socket that carries the type and the JSON
\* image of the data (the data itself when JSON can write it); when it
\* throws the call returns false and transmits nothing; the call changes
\* nothing else and throws nothing
C9_SendSerialisable ==
    [][\A type \in MessageType, data \in Data :
          (/\ out'.ret \in {"true", "false"}
           /\ Send(type, data)
           /\ connectionStatus = CONNECTED
           /\ socket # 0 /\ sockets[socket] = "OPEN") =>
              /\ ~out'.thrown
              /\ SendFrame
              /\ IF data = "cyclic"
                 THEN out'.ret = "false" /\ out'.sent = <<>>
                 ELSE /\ out'.ret = "true"
                      /\ Len(out'.sent) = 1
                      /\ out'.sent[1].sock = socket
                      /\ DOMAIN Carried(out'.sent[1]) = {"type", "data", "timestamp"}
                      /\ Carried(out'.sent[1]).type = type
                      /\ Carried(out'.sent[1]).data =
                             (IF data = "NaN" THEN "null" ELSE data)]_vars

C9_Witness ==
    /\ out.ret = "true"
    /\ connectionStatus = CONNECTED
    /\ Len(out.sent) = 1
    /\ socket # 0 /\ out.sent[1].sock = socket

UniqueIds(collection) ==
    \A i, j \in DOMAIN collection :
        collection[i].id = collection[j].id => i = j

\* C10: from collections without a repeated id, no sequence of updates from
\* the socket makes an id appear twice in missions or in agents
C10_UniqueIds == UniqueIds(missions) /\ UniqueIds(agents)

C10_Witness ==
    /\ out.ret = "merged"
    /\ Len(missions) = 2
    /\ missions[1].id # missions[2].id

\* the collection after the upsert of a payload whose id it holds: the
\* record with that id has the payload's fields with the payload's values
\* and its other fields as before, every other record is as before
IsMerge(before, after, payload) ==
    /\ Len(after) = Len(before)
    /\ \A i \in DOMAIN before :
           IF before[i].id = payload.id
           THEN /\ DOMAIN after[i] = DOMAIN before[i] \cup DOMAIN payload
                /\ \A f \in DOMAIN payload : after[i][f] = payload[f]
                /\ \A f \in DOMAIN before[i] \ DOMAIN payload :
                       after[i][f] = before[i][f]
                /\ after[i].id = before[i].id
           ELSE after[i] = before[i]

Holds(collection, id) == \E i \in DOMAIN collection : collection[i].id = id

\* C11: an update whose id the collection holds merges the payload into
\* that record: the payload's fields take the payload's values, the
\* record's other fields, its id and its position stay, and every other
\* record stays
C11_UpsertExistingMerges ==
    [][/\ \A mission \in Missions :
             (/\ out'.arg = <<mission>>
              /\ UpdateMission(mission)
              /\ Holds(missions, mission.id)) =>
                 IsMerge(missions, missions', mission)
       /\ \A agent \in Agents :
             (/\ out'.arg = <<agent>>
              /\ UpdateAgent(agent)
              /\ Holds(agents, agent.id)) =>
                 IsMerge(agents, agents', agent)]_vars

\* a merge of a payload without title into the second of two missions,
\* which keeps its title and takes the payload's status
C11_Witness ==
    /\ out.ret = "merged"
    /\ Len(missions) = 2
    /\ out.arg = <<[id |-> "m2", status |-> "completed"]>>
    /\ missions[1].id = "m1"
    /\ missions[2] = [id |-> "m2", status |-> "completed", title |-> "t1"]

\* C12: an update whose id the collection does not hold appends the
\* payload as it is: the collection is the previous one followed by that
\* record
C12_UpsertAbsentInserts ==
    [][/\ \A mission \in Missions :
             (/\ out'.arg = <<mission>>
              /\ UpdateMission(mission)
              /\ ~Holds(missions, mission.id)) =>
                 /\ Len(missions') = Len(missions) + 1
                 /\ SubSeq(missions', 1, Len(missions)) = missions
                 /\ missions'[Len(missions')] = mission
       /\ \A agent \in Agents :
             (/\ out'.arg = <<agent>>
              /\ UpdateAgent(agent)
              /\ ~Holds(agents, agent.id)) =>
                 /\ Len(agents') = Len(agents) + 1
                 /\ SubSeq(agents', 1, Len(agents)) = agents
                 /\ agents'[Len(agents')] = agent]_vars

\* agent a1 inserted into the empty collection (the scenario of the
\* specification), and a mission inserted behind another
C12_Witness ==
    /\ out.ret = "inserted"
    /\ \/ agents = <<[id |-> "a1", status |-> "idle"]>> /\ out.arg = agents
       \/ Len(missions) = 2 /\ out.arg = <<missions[2]>>

\* the message a well-formed inbound text carries
TextOf(type) == JSONStringify([type |-> type, data |-> "d1", timestamp |-> Timestamp])

\* the service's fields, the sockets and the timers
ServiceState ==
    <<socket, reconnectAttempts, reconnectTimeout, messageHandlers,
      statusChangeCallbacks, connectionStatus, sockets, timers>>

\* C13: a message of type X invokes the handlers registered for X, each
\* once per registration, in registration order, with the message's data,
\* and no other handler; when X has no handler nothing is invoked; the
\* message changes nothing of the service
C13_DispatchToAllInOrder ==
    [][\A s \in SocketIds, type \in MessageType :
          (out'.arg = <<TextOf(type)>> /\ Message(s, TextOf(type))) =>
              /\ out'.calls = [i \in DOMAIN messageHandlers[type] |->
                                  <<messageHandlers[type][i], "d1">>]
              /\ UNCHANGED ServiceState]_vars

\* the type of the message the last step dispatched
Dispatched(type) == out.arg = <<TextOf(type)>>

\* number of registrations of the handler
Count(handlers, handler) ==
    Cardinality({i \in DOMAIN handlers : handlers[i] = handler})

\* C14 as claimed: a handler given to offMessage for a type is not invoked
\* for a message of that type until it is given to onMessage again
C14_UnsubscribedNotInvoked ==
    \A type \in MessageType :
        Dispatched(type) =>
            \A i \in DOMAIN out.calls : <<type, out.calls[i][1]>> \notin removed

\* C14 amended: offMessage(type, handler) removes the first registration
\* of the handler for the type and nothing else; a handler given to
\* offMessage and not to onMessage since is invoked for a message of the
\* type only while a registration of it remains, that is only when it had
\* been registered more than once
C14_UnsubscribeRemovesOne ==
    [][/\ \A type \in MessageType, handler \in Handlers :
             Off(type, handler) =>
                 LET before == messageHandlers[type]
                     after == messageHandlers'[type]
                 IN  /\ \A t \in MessageType \ {type} :
                            messageHandlers'[t] = messageHandlers[t]
                     /\ \A h \in Handlers \ {handler} :
                            Count(after, h) = Count(before, h)
                     /\ IF Count(before, handler) = 0 THEN after = before
                        ELSE /\ Count(after, handler) = Count(before, handler) - 1
                             /\ after = Splice(before, IndexOf(before, handler))
                     /\ Count(before, handler) <= 1 => Count(after, handler) = 0
       /\ \A type \in MessageType, s \in SocketIds :
             (out'.arg = <<TextOf(type)>> /\ Message(s, TextOf(type))) =>
                 \A i \in DOMAIN out'.calls :
                     <<type, out'.calls[i][1]>> \in removed =>
                         Count(messageHandlers[type], out'.calls[i][1]) >= 1]_vars

\* a message dispatched to no handler after the only registration of a
\* handler for its type was removed
C14_Witness ==
    \E type \in MessageType :
        /\ Dispatched(type)
        /\ removed = {<<type, "h1">>}
        /\ messageHandlers[type] = <<>>
        /\ out.calls = <<>>

\* C15: onStatusChange(callback) invokes the callback once, with the
\* status getStatus() returns, and nothing else; it appends the callback
\* to the list and changes nothing else
C15_SubscribeReplaysStatus ==
    [][\A callback \in Callbacks :
          (/\ statusChangeCallbacks' # statusChangeCallbacks
           /\ OnStatus(callback)) =>
              /\ out'.calls = << <<callback, getStatus(World)>> >>
              /\ statusChangeCallbacks' = Append(statusChangeCallbacks, callback)
              /\ UNCHANGED <<socket, reconnectAttempts, reconnectTimeout,
                             messageHandlers, connectionStatus, sockets,
                             timers>>]_vars

\* the callback subscribed before any status change, and one subscribed
\* while the service is connecting
C15_Witness ==
    /\ statusChangeCallbacks = <<"cb1">>
    /\ \/ /\ out.calls = << <<"cb1", DISCONNECTED>> >>
          /\ \A s \in SocketIds : sockets[s] = "NONE"
          /\ \A t \in TimerIds : timers[t] = "NONE"
       \/ /\ out.calls = << <<"cb1", CONNECTING>> >>
          /\ out.armed = <<>>
          /\ socket # 0 /\ sockets[socket] = "CONNECTING"

\* texts that JSON.parse rejects or that give no object with a type
Malformed == {BadText, NullText, JSONStringify([data |-> "d1"])}

\* C16: a text that does not parse to a message is dropped: the service's
\* fields, the sockets, the timers and the stores stay as they are, no
\* handler is invoked and the message event handler throws nothing
C16_MalformedDropped ==
    [][\A s \in SocketIds, text \in Malformed :
          (out'.arg = <<text>> /\ Message(s, text)) =>
              /\ out'.calls = <<>>
              /\ ~out'.thrown
              /\ UNCHANGED ServiceState
              /\ UNCHANGED storeVars]_vars

\* a text that is no JSON arrived while handlers were registered
C16_Witness ==
    /\ out.arg = <<BadText>>
    /\ connectionStatus = CONNECTED
    /\ \E type \in MessageType : messageHandlers[type] # <<>>
    /\ out.calls = <<>>

\* the step is a call of a public operation by the application
PublicCall ==
    \/ Connect
    \/ Disconnect
    \/ SendMessage
    \/ OnMessage
    \/ OffMessage
    \/ OnStatusChange
    \/ OffStatusChange

\* C17: no call of a public operation throws
C17_PublicCallsNeverThrow == [][PublicCall => ~out'.thrown]_vars

\* the state a call leaves to the next call: its effects, with what it
\* returned, threw, sent and invoked forgotten
After(w) ==
    [Collect(w) EXCEPT !.ret = "void", !.thrown = FALSE, !.sent = <<>>,
                       !.calls = <<>>, !.armed = <<>>]

\* C18: disconnect() called in any state leaves no socket reference, no
\* pending timer, status DISCONNECTED, and the counter and the registries as
\* they were; a second call right after it changes nothing and throws
\* nothing
C18_DisconnectIdempotent ==
    LET once == After(disconnect(World))
        twice == disconnect(once)
    IN  /\ once.socket = 0
        /\ \A t \in TimerIds : once.timers[t] # "PENDING"
        /\ once.connectionStatus = DISCONNECTED
        /\ once.reconnectAttempts = reconnectAttempts
        /\ once.messageHandlers = messageHandlers
        /\ once.statusChangeCallbacks = statusChangeCallbacks
        /\ After(twice) = once
        /\ ~twice.thrown

\* the step is connect(), disconnect(), an open or close (with or without
\* error) event of a socket, or the firing of a reconnect timer
LifecycleStep ==
    \/ Connect
    \/ Disconnect
    \/ \E s \in SocketIds : SocketOpen(s)
    \/ \E s \in SocketIds, failed \in BOOLEAN : SocketClose(s, failed)
    \/ \E t \in TimerIds : TimerFire(t)

\* C19: connect(), disconnect(), the sockets' events and the timers'
\* firings leave the message handlers, the status callbacks and the
\* stores' collections as they are
C19_LifecycleKeepsRegistries ==
    [][LifecycleStep =>
          UNCHANGED <<messageHandlers, statusChangeCallbacks, missions,
                      currentMission, agents, currentAgent>>]_vars

\* connected again after a disconnect() or a lost connection, with the
\* subscriptions and the records of the start
C19_Witness ==
    /\ connectionStatus = CONNECTED
    /\ reconnectAttempts = 0
    /\ \E t \in TimerIds : timers[t] = "PENDING"
    /\ messageHandlers["MISSION_UPDATE"] = <<"h1">>
    /\ messageHandlers["AGENT_UPDATE"] = <<"h1">>
    /\ statusChangeCallbacks = <<"cb1">>
    /\ missions = <<[id |-> "m1", status |-> "pending"]>>
    /\ agents = <<[id |-> "a1", status |-> "idle"]>>

\* C20: the close event of a socket sets status DISCONNECTED, empties
\* this.socket and, when the attempt counter is below the maximum, arms one
\* reconnect timer, which this.reconnectTimeout then holds
C20_CloseDiscardsTransport ==
    [][\A s \in SocketIds :
          IsCloseStep(s) =>
              /\ connectionStatus' = DISCONNECTED
              /\ socket' = 0
              /\ reconnectAttempts < maxReconnectAttempts =>
                     /\ Len(out'.armed) = 1
                     /\ reconnectTimeout' # 0
                     /\ timers'[reconnectTimeout'] = "PENDING"]_vars

\* C21: a pending reconnect timer leaves the queue (while the event loop
\* can run it), and only by firing or by disconnect(); its firing adds one
\* to the attempt counter and calls connect(), which leaves status
\* CONNECTING (ERROR when the constructor throws); the open event of a
\* socket then sets status CONNECTED with no call of the application
C21_ReconnectEventually ==
    /\ \A t \in TimerIds :
           timers[t] = "PENDING" ~>
               (timers[t] # "PENDING" \/ ~ENABLED (TimerFire(t) /\ UNCHANGED histVars))
    /\ [][\A t \in TimerIds :
              (timers[t] = "PENDING" /\ timers'[t] # "PENDING") =>
                  TimerFire(t) \/ Disconnect]_vars
    /\ [][\A t \in TimerIds :
              (timers[t] = "PENDING" /\ timers'[t] # "PENDING" /\ TimerFire(t)) =>
                  /\ reconnectAttempts' = reconnectAttempts + 1
                  /\ connectionStatus' = (IF ctorFails THEN ERROR ELSE CONNECTING)]_vars
    /\ [][\A s \in SocketIds : IsOpenStep(s) => connectionStatus' = CONNECTED]_vars

\* the step is a call of connect(), by the application or by a timer, that
\* reaches the constructor
ReachesConstructor ==
    /\ Connect \/ \E t \in TimerIds : TimerFire(t)
    /\ ~(socket # 0 /\ sockets[socket] = "OPEN")
    /\ ~Throws(statusChangeCallbacks)

\* C22: a call of connect() whose constructor throws returns normally,
\* leaves status ERROR and this.socket as it was, and arms a reconnect
\* timer as a close event does: with delay min(1000 * 2^n, 30000) for the
\* counter n, and none once n has reached the maximum
C22_ConstructorFailure ==
    [][(ctorFails /\ ReachesConstructor) =>
          /\ ~out'.thrown
          /\ connectionStatus' = ERROR
          /\ socket' = socket
          /\ IF reconnectAttempts' < maxReconnectAttempts
             THEN /\ out'.armed = <<C6_Delays[reconnectAttempts' + 1]>>
                  /\ reconnectTimeout' # 0
                  /\ timers'[reconnectTimeout'] = "PENDING"
             ELSE /\ out'.armed = <<>>
                  /\ Pending' \subseteq Pending]_vars

\* the fifth reconnect in a row has failed in the constructor: status
\* ERROR, the subscriber told so, and no further timer
C22_Witness ==
    /\ ctorFails
    /\ reconnectAttempts = maxReconnectAttempts
    /\ connectionStatus = ERROR
    /\ out.calls = << <<"cb1", CONNECTING>>, <<"cb1", ERROR>> >>
    /\ out.armed = <<>>
    /\ Pending = {}

\* C23: status is CONNECTED only while this.socket is an open socket, and
\* sendMessage returns true only while status is CONNECTED
C23_StatusMatchesTransport ==
    /\ connectionStatus = CONNECTED => (socket # 0 /\ sockets[socket] = "OPEN")
    /\ out.ret = "true" => connectionStatus = CONNECTED

\* C24: when a handler registered for the type of a message throws, the
\* handlers registered after it for that type are still invoked for the
\* message, and nothing is thrown out of the message event handler
C24_DispatchFailIsolated ==
    [][\A s \in SocketIds, type \in MessageType :
          (/\ out'.arg = <<TextOf(type)>>
           /\ Message(s, TextOf(type))
           /\ Count(messageHandlers[type], "hThrow") >= 1) =>
              /\ ~out'.thrown
              /\ \A i \in DOMAIN messageHandlers[type] :
                     /\ i \in DOMAIN out'.calls
                     /\ out'.calls[i][1] = messageHandlers[type][i]]_vars

\* every subscribed callback called once, in registration order, with the
\* status
Told(status) ==
    [i \in DOMAIN statusChangeCallbacks |-> <<statusChangeCallbacks[i], status>>]

\* C25: disconnect(), an open event, a close event (after an error event
\* or not) and a connect() that reaches the constructor call every
\* subscribed callback once per status they set, in registration order,
\* also when the status was the same before; after
\* offStatusChange(callback) the callback is no longer subscribed
C25_EveryUpdateNotifiesAll ==
    [][/\ Disconnect => out'.calls = Told(DISCONNECTED)
       /\ \A s \in SocketIds :
             /\ SocketOpen(s) => out'.calls = Told(CONNECTED)
             /\ SocketClose(s, FALSE) => out'.calls = Told(DISCONNECTED)
             /\ SocketClose(s, TRUE) =>
                    out'.calls = Told(ERROR) \o Told(DISCONNECTED)
       /\ (Connect /\ ~(socket # 0 /\ sockets[socket] = "OPEN")) =>
              out'.calls = Told(CONNECTING) \o
                              (IF ctorFails THEN Told(ERROR) ELSE <<>>)
       /\ \A callback \in Callbacks :
              OffStatus(callback) => Count(statusChangeCallbacks', callback) = 0]_vars

\* the stores as the update functions see them
MissionState ==
    [missions |-> missions, currentMission |-> currentMission, branch |-> "none"]
AgentState ==
    [agents |-> agents, currentAgent |-> currentAgent, branch |-> "none"]

\* the record with the id
RecordOf(collection, id) ==
    collection[CHOOSE i \in DOMAIN collection : collection[i].id = id]

\* C26: of two payloads with the same id applied one after the other, the
\* second decides every field both mention; no order or version is looked
\* at, so when they differ on such a field the two orders give different
\* collections
C26_LastWriterWins ==
    /\ \A p \in Missions, q \in Missions :
           p.id = q.id =>
               LET pq == updateMissionFromWebSocket(
                             updateMissionFromWebSocket(MissionState, p), q)
                   qp == updateMissionFromWebSocket(
                             updateMissionFromWebSocket(MissionState, q), p)
               IN  \A f \in (DOMAIN p \cap DOMAIN q) \ {"id"} :
                       /\ RecordOf(pq.missions, p.id)[f] = q[f]
                       /\ p[f] # q[f] => pq.missions # qp.missions
    /\ \A p \in Agents, q \in Agents :
           p.id = q.id =>
               LET pq == updateAgentFromWebSocket(
                             updateAgentFromWebSocket(AgentState, p), q)
                   qp == updateAgentFromWebSocket(
                             updateAgentFromWebSocket(AgentState, q), p)
               IN  \A f \in (DOMAIN p \cap DOMAIN q) \ {"id"} :
                       /\ RecordOf(pq.agents, p.id)[f] = q[f]
                       /\ p[f] # q[f] => pq.agents # qp.agents

\* a payload with status pending applied to a mission with a title: the
\* mission is pending whatever it was before
C26_Witness ==
    /\ out.ret = "merged"
    /\ out.arg = <<[id |-> "m1", status |-> "pending"]>>
    /\ missions # <<>>
    /\ missions[1] = [id |-> "m1", status |-> "pending", title |-> "t1"]

\* C27: a payload applied a second time right after the first changes
\* neither the collection nor the current record
C27_UpsertIdempotent ==
    /\ \A p \in Missions :
           LET once == updateMissionFromWebSocket(MissionState, p)
               twice == updateMissionFromWebSocket(once, p)
           IN  /\ twice.missions = once.missions
               /\ twice.currentMission = once.currentMission
    /\ \A p \in Agents :
           LET once == updateAgentFromWebSocket(AgentState, p)
               twice == updateAgentFromWebSocket(once, p)
           IN  /\ twice.agents = once.agents
               /\ twice.currentAgent = once.currentAgent

\* C28: the attempt counter changes only in an open event, to 0, and in
\* the firing of a reconnect timer, by one; connect() and disconnect()
\* called by the application leave it as it is, so the close event of a
\* socket arms no timer while the counter is at the maximum, also when the
\* socket is one the application has connected since
C28_CounterFrame ==
    [][/\ reconnectAttempts' # reconnectAttempts =>
              \/ reconnectAttempts' = 0 /\ \E s \in SocketIds : IsOpenStep(s)
              \/ /\ reconnectAttempts' = reconnectAttempts + 1
                 /\ \E t \in TimerIds : TimerFire(t)
       /\ (Connect \/ Disconnect) => reconnectAttempts' = reconnectAttempts
       /\ \A s \in SocketIds :
              (IsCloseStep(s) /\ reconnectAttempts >= maxReconnectAttempts) =>
                  out'.armed = <<>> /\ Pending' \subseteq Pending]_vars

\* the retries were used up, the application has called connect(), and
\* the socket of that call has closed: no timer
C28_Witness ==
    /\ reconnectAttempts = maxReconnectAttempts
    /\ closeRun = 1
    /\ ~userClosed
    /\ socket # 0 /\ sockets[socket] = "CLOSED"
    /\ connectionStatus = DISCONNECTED
    /\ out.armed = <<>>
    /\ Pending = {}

\* C29: the attempt counter, which is the number of calls of connect() by
\* reconnect timers since the last open event, is between 0 and the
\* maximum
C29_CounterInRange ==
    reconnectAttempts >= 0 /\ reconnectAttempts <= maxReconnectAttempts

\* C30: the ids of missions and of agents stay unique when updates from
\* the socket and responses of createMission / createAgent for the same
\* record arrive in any order
C30_UniqueUnderCreate == UniqueIds(missions) /\ UniqueIds(agents)

\* C31: when a handler unsubscribes a handler of the type being dispatched,
\* every handler that is still subscribed afterwards is called for the
\* message being dispatched
C31_UnsubscribeInDispatch ==
    [][\A s \in SocketIds, type \in MessageType :
          (/\ out'.arg = <<TextOf(type)>>
           /\ Message(s, TextOf(type))
           /\ messageHandlers'[type] # messageHandlers[type]) =>
              \A i \in DOMAIN messageHandlers'[type] :
                  \E j \in DOMAIN out'.calls :
                      out'.calls[j] = <<messageHandlers'[type][i], "d1">>]_vars

\* C32: an update merges the payload into the current record exactly when
\* the collection holds the payload's id and the current record has that
\* id; when the collection does not hold the id the current record stays
\* as it is, also when its id is the payload's
C32_CurrentMergedOnlyIfHeld ==
    [][/\ \A mission \in Missions :
              UpdateMission(mission) =>
                  currentMission' =
                      IF /\ Holds(missions, mission.id)
                         /\ currentMission # Null
                         /\ currentMission[1].id = mission.id
                      THEN Some(Spread(currentMission[1], mission))
                      ELSE currentMission
       /\ \A agent \in Agents :
              UpdateAgent(agent) =>
                  currentAgent' =
                      IF /\ Holds(agents, agent.id)
                         /\ currentAgent # Null
                         /\ currentAgent[1].id = agent.id
                      THEN Some(Spread(currentAgent[1], agent))
                      ELSE currentAgent]_vars

\* an update was inserted whose id is the current mission's and whose
\* fields differ from it: the current mission has not taken them
C32_Witness ==
    /\ out.ret = "inserted"
    /\ currentMission # Null
    /\ Len(out.arg) = 1
    /\ out.arg[1].id = currentMission[1].id
    /\ "status" \in DOMAIN out.arg[1]
    /\ out.arg[1].status = "completed"
    /\ currentMission[1].status = "pending"
    /\ Holds(missions, currentMission[1].id)

\* calls of the handler among the calls of a step
Calls(calls, handler) ==
    Cardinality({j \in DOMAIN calls : calls[j][1] = handler})

\* C33: a run of the effect of useWebSocket adds one handler for
\* MISSION_UPDATE and one for AGENT_UPDATE; its cleanup removes the status
\* callback and disconnects and leaves the handlers; so a MISSION_UPDATE
\* message calls the mission store's update once for every run so far, and
\* the collection is then what one call would have made it
C33_HandlersAccumulate ==
    [][/\ Mount =>
              /\ messageHandlers'["MISSION_UPDATE"] =
                     Append(messageHandlers["MISSION_UPDATE"], "hMission")
              /\ messageHandlers'["AGENT_UPDATE"] =
                     Append(messageHandlers["AGENT_UPDATE"], "hAgent")
       /\ Cleanup =>
              /\ messageHandlers' = messageHandlers
              /\ statusChangeCallbacks' = <<>>
              /\ socket' = 0
       /\ \A s \in SocketIds :
              \A text \in {Frame("MISSION_UPDATE", mission) :
                                mission \in HookMissions}
                           \cup {Bare("MISSION_UPDATE")} :
                  (out'.arg = <<text>> /\ Message(s, text)) =>
                      LET once == Hook(World, "hMission", JSONParse(text).value)
                      IN  /\ Calls(out'.calls, "hMission") =
                                 Len(messageHandlers["MISSION_UPDATE"])
                          /\ missions' = once.w.missions]_vars

====
